---------------------------- MODULE Spec2Model ----------------------------
(***************************************************************************)
(* A model of graphics.hh (packed colours, the vector arithmetic engine,   *)
(* the canvas with its sub-views and its PPM export) and of the way        *)
(* main.cc drives it.                                                      *)
(*                                                                         *)
(* A 32-bit unsigned value is a tuple of four bytes, least significant     *)
(* first: <<b0, b1, b2, b3>> stands for b0 + b1*2^8 + b2*2^16 + b3*2^24.   *)
(* A byte stream (a file, an ostream) is a sequence of byte values.        *)
(***************************************************************************)
EXTENDS Integers, Sequences, FiniteSets

VARIABLES
    rgbIn,      \* the (r, g, b) bytes handed to encode_rgb
    color,      \* the value encode_rgb returned, <<>> before the call
    rgbOut,     \* the tuple decode_rgb returned, <<>> before the call
    vin,        \* the operator and operands of the last reduce call
    vres,       \* the container reduce returned
    vstat,      \* "none" | "ok" | "ub" (a division by zero was evaluated)
    fmtVec,     \* <<vec>> once vec was written with operator<<, <<>> before
    os,         \* the bytes operator<< put on the stream
    mem,        \* the top-level canvas's storage, element o at index o + 1
    stack,      \* the live canvases: the top-level one, then each view of the one before
    shadow,     \* for each top-level pixel, the value of the last fill that covered it
    nfills,     \* the number of fill calls so far
    last,       \* the last canvas operation, its arguments and what it returned
    file        \* the bytes of the file save_as_ppm wrote, <<>> while there is none

rgbVars == <<rgbIn, color, rgbOut>>
vecVars == <<vin, vres, vstat, fmtVec, os>>
canvasVars == <<mem, stack, shadow, nfills, last, file>>

-----------------------------------------------------------------------------
(* Bounds of the model.                                                    *)

\* Largest arity of a vector operand.
MaxArity == 3

\* Largest width and largest height of a top-level canvas.
MaxSide == 3

\* Largest number of padding elements per row of a top-level canvas.
MaxPad == 1

\* Deepest nesting of views held at once: 1 is a view of the top-level canvas.
MaxDepth == 2

\* Largest number of pixels (width * height) of a canvas painted over and over.
MaxPixels == 6

\* Largest number of fill calls that paint one canvas.
MaxFills == 2

-----------------------------------------------------------------------------
(* 32-bit unsigned arithmetic on byte tuples.                              *)

Bytes == 0..255

Pow2(n) == 2^n

RECURSIVE BitOr(_, _)
BitOr(a, b) ==
    IF a = 0 THEN b
    ELSE IF b = 0 THEN a
    ELSE (IF a % 2 = 1 \/ b % 2 = 1 THEN 1 ELSE 0) + 2 * BitOr(a \div 2, b \div 2)

RECURSIVE BitAnd(_, _)
BitAnd(a, b) ==
    IF a = 0 \/ b = 0 THEN 0
    ELSE (IF a % 2 = 1 /\ b % 2 = 1 THEN 1 ELSE 0) + 2 * BitAnd(a \div 2, b \div 2)

\* The integer promotion of a uint8_t.
FromU8(x) == <<x, 0, 0, 0>>

\* The conversion of a 32-bit value to uint8_t.
ToU8(u) == u[1]

OrU32(u, v) == [i \in 1..4 |-> BitOr(u[i], v[i])]

AndU32(u, v) == [i \in 1..4 |-> BitAnd(u[i], v[i])]

\* u << n, for 0 <= n < 32; bits shifted past bit 31 are lost.
ShlU32(u, n) ==
    LET q == n \div 8
        r == n % 8
        B(i) == IF i >= 1 /\ i <= 4 THEN u[i] ELSE 0
    IN  [i \in 1..4 |-> ((B(i - q) * Pow2(r)) % 256) + ((B(i - q - 1) * Pow2(r)) \div 256)]

\* u >> n, for 0 <= n < 32.
ShrU32(u, n) ==
    LET q == n \div 8
        r == n % 8
        B(i) == IF i >= 1 /\ i <= 4 THEN u[i] ELSE 0
    IN  [i \in 1..4 |-> (B(i + q) \div Pow2(r)) + ((B(i + q + 1) * Pow2(8 - r)) % 256)]

\* The unsigned value of a small natural number.
ToU32(n) == [i \in 1..4 |-> (n \div (256 ^ (i - 1))) % 256]

\* --u on an unsigned: 0 wraps to 2^32 - 1.
DecU32(u) ==
    IF \A i \in 1..4 : u[i] = 0
    THEN <<255, 255, 255, 255>>
    ELSE LET k == CHOOSE i \in 1..4 : u[i] # 0 /\ \A j \in 1..(i - 1) : u[j] = 0
         IN  [i \in 1..4 |-> IF i < k THEN 255 ELSE IF i = k THEN u[i] - 1 ELSE u[i]]

\* u < v on unsigned values.
LtU32(u, v) == \E i \in 1..4 : u[i] < v[i] /\ \A j \in (i + 1)..4 : u[j] = v[j]

-----------------------------------------------------------------------------
(* Packed colours.                                                         *)

\* encode_rgb with r and b in each other's byte: the round trip and the
\* packed value tell it from encode_rgb.
encode_rgb_swapped(r, g, b) ==
    OrU32(OrU32(OrU32(FromU8(b), ShlU32(FromU8(g), 8)),
                ShlU32(FromU8(r), 2 * 8)),
          <<0, 0, 0, 255>>)

encode_rgb(r, g, b) ==
    OrU32(OrU32(OrU32(FromU8(r), ShlU32(FromU8(g), 8)),
                ShlU32(FromU8(b), 2 * 8)),
          <<0, 0, 0, 255>>)

decode_rgb(c) ==
    << ToU8(ShrU32(AndU32(c, <<255, 0, 0, 0>>), 8 * 0)),
       ToU8(ShrU32(AndU32(c, <<0, 255, 0, 0>>), 8 * 1)),
       ToU8(ShrU32(AndU32(c, <<0, 0, 255, 0>>), 8 * 2)) >>

\* Byte values at the edges of each bit position.
ByteSamples == {0, 1, 127, 128, 255}

\* Every byte value in one channel, edge values in the other two.
RgbInputs ==
    {<<r, g, b>> : r \in Bytes, g \in ByteSamples, b \in ByteSamples}
    \cup {<<r, g, b>> : r \in ByteSamples, g \in Bytes, b \in ByteSamples}
    \cup {<<r, g, b>> : r \in ByteSamples, g \in ByteSamples, b \in Bytes}

Encode ==
    /\ color = <<>>
    /\ color' = encode_rgb(rgbIn[1], rgbIn[2], rgbIn[3])
    /\ UNCHANGED <<rgbIn, rgbOut>>

Decode ==
    /\ color # <<>>
    /\ rgbOut = <<>>
    /\ rgbOut' = decode_rgb(color)
    /\ UNCHANGED <<rgbIn, color>>

-----------------------------------------------------------------------------
(* The vector arithmetic engine.                                           *)

\* Element and scalar values: int, small enough that no operator overflows.
Elems == {-7, 0, 10}

Operators == {"plus", "minus", "multiplies", "divides"}

Scalar(s) == [kind |-> "scalar", value |-> s]

Vector(e) == [kind |-> "vector", elems |-> e]

RECURSIVE Tuples(_)
Tuples(n) ==
    IF n = 0 THEN {<<>>}
    ELSE {Append(t, e) : t \in Tuples(n - 1), e \in Elems}

Vectors == UNION {{Vector(t) : t \in Tuples(n)} : n \in 0..MaxArity}

Scalars == {Scalar(s) : s \in Elems}

\* concept vector: std::get<0> is declared for the type.
vector(x) == x.kind = "vector"

tuple_size(x) == Len(x.elems)

\* std::get<I>, I counted from 0.
get(I, x) == x.elems[I + 1]

Min(a, b) == IF a <= b THEN a ELSE b

\* The minimum over the operands of tuple_size for a vector and of
\* ~size_t{} for a scalar: a scalar never yields the minimum while the
\* other operand is a vector, which reduce requires.
vector_min_size(lhs, rhs) ==
    IF vector(lhs) /\ vector(rhs) THEN Min(tuple_size(lhs), tuple_size(rhs))
    ELSE IF vector(lhs) THEN tuple_size(lhs)
    ELSE tuple_size(rhs)

Abs(a) == IF a < 0 THEN -a ELSE a

\* Integer division of C++: the quotient is truncated towards zero.
TruncDiv(a, b) ==
    LET q == Abs(a) \div Abs(b)
    IN  IF (a < 0) # (b < 0) THEN -q ELSE q

\* std::plus<void>, std::minus<void>, std::multiplies<void>,
\* std::divides<void> on int operands; b # 0 for divides.
binary_operator(op, a, b) ==
    CASE op = "plus" -> a + b
      [] op = "minus" -> a - b
      [] op = "multiplies" -> a * b
      [] op = "divides" -> TruncDiv(a, b)

\* The right operand of position I, as the branch taken evaluates it.
Divisor(lhs, rhs, I) == IF vector(rhs) THEN get(I, rhs) ELSE rhs.value

\* reduce with the operands of its scalar-first branch in the other order:
\* the elementwise law tells it from reduce.
reduce_flipped(op, lhs, rhs) ==
    LET N == vector_min_size(lhs, rhs)
    IN  IF vector(lhs) /\ ~vector(rhs)
        THEN [i \in 1..N |-> binary_operator(op, get(i - 1, lhs), rhs.value)]
        ELSE IF ~vector(lhs) /\ vector(rhs)
        THEN [i \in 1..N |-> binary_operator(op, get(i - 1, rhs), lhs.value)]
        ELSE [i \in 1..N |-> binary_operator(op, get(i - 1, lhs), get(i - 1, rhs))]

reduce(op, lhs, rhs) ==
    LET N == vector_min_size(lhs, rhs)
    IN  IF vector(lhs) /\ ~vector(rhs)
        THEN [i \in 1..N |-> binary_operator(op, get(i - 1, lhs), rhs.value)]
        ELSE IF ~vector(lhs) /\ vector(rhs)
        THEN [i \in 1..N |-> binary_operator(op, lhs.value, get(i - 1, rhs))]
        ELSE [i \in 1..N |-> binary_operator(op, get(i - 1, lhs), get(i - 1, rhs))]

\* The calls of reduce that are programs: at least one operand is a vector,
\* and std::array{...} has an element to deduce its type from (N >= 1).
ReduceCalls ==
    {[op |-> op, lhs |-> lhs, rhs |-> rhs] :
        op \in Operators, lhs \in Vectors \cup Scalars, rhs \in Vectors \cup Scalars}

Callable(c) ==
    /\ vector(c.lhs) \/ vector(c.rhs)
    /\ vector_min_size(c.lhs, c.rhs) >= 1

DividesByZero(c) ==
    /\ c.op = "divides"
    /\ \E I \in 0..(vector_min_size(c.lhs, c.rhs) - 1) : Divisor(c.lhs, c.rhs, I) = 0

\* reduce<op>(lhs, rhs) on operands that hold no zero divisor.
Reduce ==
    /\ vstat = "none"
    /\ Callable(vin)
    /\ ~DividesByZero(vin)
    /\ vres' = reduce(vin.op, vin.lhs, vin.rhs)
    /\ vstat' = "ok"
    /\ UNCHANGED <<vin, fmtVec, os>>

\* reduce<std::divides>(lhs, rhs) with a zero divisor: undefined behaviour.
\* The build traps, or yields some value at the positions that divided by
\* zero.
ReduceDivByZero ==
    /\ vstat = "none"
    /\ Callable(vin)
    /\ DividesByZero(vin)
    /\ vstat' = "ub"
    /\ \/ vres' = <<>>
       \/ \E g \in Elems :
            vres' = [i \in 1..vector_min_size(vin.lhs, vin.rhs) |->
                        IF Divisor(vin.lhs, vin.rhs, i - 1) = 0 THEN g
                        ELSE binary_operator("divides",
                                 IF vector(vin.lhs) THEN get(i - 1, vin.lhs)
                                 ELSE vin.lhs.value,
                                 Divisor(vin.lhs, vin.rhs, i - 1))]
    /\ UNCHANGED <<vin, fmtVec, os>>

\* os << n for an unsigned or non-negative n.
RECURSIVE Decimal(_)
Decimal(n) ==
    IF n < 10 THEN <<48 + n>>
    ELSE Append(Decimal(n \div 10), 48 + (n % 10))

\* os << n for an int.
FormatInt(n) == IF n < 0 THEN <<45>> \o Decimal(-n) ELSE Decimal(n)

\* The fold of operator<< over the index sequence I, I+1, ..., N-1.
RECURSIVE FormatFold(_, _, _)
FormatFold(stream, vec, I) ==
    IF I >= tuple_size(vec) THEN stream
    ELSE FormatFold(stream \o (IF I > 0 THEN <<44, 32>> ELSE <<40>>)
                           \o FormatInt(get(I, vec)),
                    vec, I + 1)

\* operator<<(os, vec) on an empty stream.
FormatVector(vec) == FormatFold(<<>>, vec, 0) \o <<41>>

\* The vectors at hand: the operands, and the container reduce returned.
Printable ==
    {x \in {vin.lhs, vin.rhs} : vector(x)}
    \cup (IF vstat = "ok" THEN {Vector(vres)} ELSE {})

\* os << vec, once, on a stream that holds nothing yet.
Format(vec) ==
    /\ fmtVec = <<>>
    /\ fmtVec' = <<vec>>
    /\ os' = FormatVector(vec)
    /\ UNCHANGED <<vin, vres, vstat>>

-----------------------------------------------------------------------------
(* The canvas.                                                             *)

\* colors::red and colors::green.
red == encode_rgb(255, 0, 0)

green == encode_rgb(0, 255, 0)

Palette == {red, green}

\* A canvas: data is the span <<first, last>> of storage offsets it
\* refers to (<<>> for no backing storage), then width, height, stride.
Canvas(data, width, height, stride) ==
    [data |-> data, width |-> width, height |-> height, stride |-> stride]

\* A value-initialised canvas<std::span<value_type>>: stride = width = 0.
EmptyCanvas == Canvas(<<>>, 0, 0, 0)

\* The storage offset of data[i]; a canvas without backing storage is
\* never indexed.
At(c, i) == c.data[1] + i

\* std::fill taking last as the last element to write, not as the end of
\* the range: the fill frame tells it from std::fill.
StdFillClosed(m, first, lst, value) ==
    [i \in 1..Len(m) |-> IF first <= i - 1 /\ i - 1 <= lst THEN value ELSE m[i]]

\* std::fill(first, last, value) on storage offsets.
StdFill(m, first, lst, value) ==
    [i \in 1..Len(m) |-> IF first <= i - 1 /\ i - 1 < lst THEN value ELSE m[i]]

\* The loop of canvas::fill from the state (cursor, h) on: the storage
\* it leaves and the number of rows it wrote.
RECURSIVE FillLoop(_, _, _, _, _, _)
FillLoop(c, m, value, cursor, h, rows) ==
    LET h1 == DecU32(h)
    IN  IF LtU32(h1, ToU32(c.height))
        THEN FillLoop(c, StdFill(m, At(c, cursor), At(c, cursor) + c.width, value),
                      value, cursor + c.stride, h1, rows + 1)
        ELSE [mem |-> m, rows |-> rows]

\* A fill that writes only the elements still value-initialised, so that
\* an earlier fill wins: the last-fill-wins property tells it from fill.
fill_unset(c, m, value) ==
    LET done == FillLoop(c, m, value, 0, ToU32(c.height), 0)
    IN  [mem |-> [i \in 1..Len(m) |-> IF m[i] = <<0, 0, 0, 0>> THEN done.mem[i] ELSE m[i]],
         rows |-> done.rows]

\* canvas::fill.
fill(c, m, value) == FillLoop(c, m, value, 0, ToU32(c.height), 0)

\* subcanvas_view without the swap of the y coordinates: the geometry of
\* views tells it from subcanvas_view.
subcanvas_view_noswap(c, p1, p2) ==
    LET x1 == p1[1]
        y1 == p1[2]
        x2 == p2[1]
        y2 == p2[2]
        sx1 == IF x1 > x2 THEN x2 ELSE x1
        sx2 == IF x1 > x2 THEN x1 ELSE x2
    IN  IF x1 = x2 /\ y1 = y2 THEN EmptyCanvas
        ELSE Canvas(<<At(c, y1 * c.stride + sx1), At(c, 0) + c.height * c.stride>>,
                    sx2 - sx1 + 1, y2 - y1 + 1, c.stride)

\* subcanvas_view taking the second corner as exclusive: the frame of a
\* fill through a view tells it from subcanvas_view.
subcanvas_view_exclusive(c, p1, p2) ==
    LET x1 == p1[1]
        y1 == p1[2]
        x2 == p2[1]
        y2 == p2[2]
        sx1 == IF x1 > x2 THEN x2 ELSE x1
        sx2 == IF x1 > x2 THEN x1 ELSE x2
        sy1 == IF y1 > y2 THEN y2 ELSE y1
        sy2 == IF y1 > y2 THEN y1 ELSE y2
    IN  IF x1 = x2 /\ y1 = y2 THEN EmptyCanvas
        ELSE Canvas(<<At(c, sy1 * c.stride + sx1), At(c, 0) + c.height * c.stride>>,
                    sx2 - sx1, sy2 - sy1, c.stride)

\* subcanvas_view without the early return for identical corners, which
\* then yields a view of one pixel: the empty-view property tells it from
\* subcanvas_view.
subcanvas_view_point(c, p1, p2) ==
    LET x1 == p1[1]
        y1 == p1[2]
        x2 == p2[1]
        y2 == p2[2]
        sx1 == IF x1 > x2 THEN x2 ELSE x1
        sx2 == IF x1 > x2 THEN x1 ELSE x2
        sy1 == IF y1 > y2 THEN y2 ELSE y1
        sy2 == IF y1 > y2 THEN y1 ELSE y2
    IN  Canvas(<<At(c, sy1 * c.stride + sx1), At(c, 0) + c.height * c.stride>>,
               sx2 - sx1 + 1, sy2 - sy1 + 1, c.stride)

\* canvas::subcanvas_view with the identity as getxy.
subcanvas_view(c, p1, p2) ==
    LET x1 == p1[1]
        y1 == p1[2]
        x2 == p2[1]
        y2 == p2[2]
        sx1 == IF x1 > x2 THEN x2 ELSE x1
        sx2 == IF x1 > x2 THEN x1 ELSE x2
        sy1 == IF y1 > y2 THEN y2 ELSE y1
        sy2 == IF y1 > y2 THEN y1 ELSE y2
    IN  IF x1 = x2 /\ y1 = y2 THEN EmptyCanvas
        ELSE Canvas(<<At(c, sy1 * c.stride + sx1), At(c, 0) + c.height * c.stride>>,
                    sx2 - sx1 + 1, sy2 - sy1 + 1, c.stride)

\* The pixels of row y from column x on, as save_as_ppm puts them.
RECURSIVE PpmRow(_, _, _, _)
PpmRow(c, m, y, x) ==
    IF x < c.width
    THEN decode_rgb(m[At(c, y * c.stride + x) + 1]) \o PpmRow(c, m, y, x + 1)
    ELSE <<>>

\* The rows from y on.
RECURSIVE PpmRows(_, _, _)
PpmRows(c, m, y) ==
    IF y < c.height
    THEN PpmRow(c, m, y, 0) \o PpmRows(c, m, y + 1)
    ELSE <<>>

\* The pixels from k on of a canvas read as if stride = width.
RECURSIVE PackedPixels(_, _, _)
PackedPixels(c, m, k) ==
    IF k < c.width * c.height
    THEN decode_rgb(m[At(c, k) + 1]) \o PackedPixels(c, m, k + 1)
    ELSE <<>>

\* save_as_ppm reading data[y * width + x]: the exact bytes of the file
\* tell it from save_as_ppm on a canvas with padding.
save_as_ppm_packed(c, m) ==
    <<80, 54, 10>> \o Decimal(c.width) \o <<32>> \o Decimal(c.height)
        \o <<10, 50, 53, 53, 10>> \o PackedPixels(c, m, 0)

\* canvas::save_as_ppm with decode_rgb as rgb: the bytes put on the stream.
save_as_ppm(c, m) ==
    <<80, 54, 10>> \o Decimal(c.width) \o <<32>> \o Decimal(c.height)
        \o <<10, 50, 53, 53, 10>> \o PpmRows(c, m, 0)

\* The top-level canvas.
Root == stack[1]

\* The canvas the next subcanvas_view is called on.
Top == stack[Len(stack)]

\* The points of a canvas: the corners a caller may pass (to keep the
\* rectangle within the parent is the caller's duty).
Points(c) == (0..(c.width - 1)) \X (0..(c.height - 1))

\* The rectangle between two corners, in the coordinates of the corners.
Rect(p1, p2) ==
    [x |-> Min(p1[1], p2[1]), y |-> Min(p1[2], p2[2]),
     w |-> Abs(p2[1] - p1[1]) + 1, h |-> Abs(p2[2] - p1[2]) + 1]

NoRect == [x |-> 0, y |-> 0, w |-> 0, h |-> 0]

\* The rectangle r2, given in the coordinates of rectangle r1, in the
\* coordinates r1 is given in.
Within(r1, r2) == [x |-> r1.x + r2.x, y |-> r1.y + r2.y, w |-> r2.w, h |-> r2.h]

InRect(r, x, y) == r.x <= x /\ x < r.x + r.w /\ r.y <= y /\ y < r.y + r.h

\* What a fill of the top-level rectangle r leaves in each pixel.
Painted(r, value) ==
    [q \in DOMAIN shadow |-> IF InRect(r, q[1], q[2]) THEN value ELSE shadow[q]]

\* The rectangle of the whole top-level canvas.
Whole == [x |-> 0, y |-> 0, w |-> Root.width, h |-> Root.height]

\* A run clears the canvas any number of times and then fills through one
\* view: a fill call is made while no view was filled through yet.
Fresh == file = <<>> /\ last.op \in {"init", "fill"} /\ (last.op = "fill" => last.depth = 0)

\* canvas.fill(value)
Fill(value) ==
    LET done == fill(Root, mem, value)
    IN  /\ Fresh
        /\ mem' = done.mem
        /\ shadow' = Painted(Whole, value)
        /\ last' = [op |-> "fill", depth |-> 0, target |-> Root, value |-> value,
                    rows |-> done.rows]
        /\ UNCHANGED <<stack, nfills, file>>

\* canvas.subcanvas_view(p1, p2).fill(value)
FillView(p1, p2, value) ==
    LET view == subcanvas_view(Root, p1, p2)
        done == fill(view, mem, value)
    IN  /\ Fresh
        /\ mem' = done.mem
        /\ shadow' = Painted(IF p1 = p2 THEN NoRect ELSE Rect(p1, p2), value)
        /\ last' = [op |-> "fill", depth |-> 1, target |-> view, value |-> value,
                    rows |-> done.rows, parent |-> Root, p1 |-> p1, p2 |-> p2]
        /\ UNCHANGED <<stack, nfills, file>>

\* canvas.subcanvas_view(p1, p2).subcanvas_view(q1, q2).fill(value)
FillNestedView(p1, p2, q1, q2, value) ==
    LET outer == subcanvas_view(Root, p1, p2)
        view == subcanvas_view(outer, q1, q2)
        done == fill(view, mem, value)
    IN  /\ Fresh
        /\ mem' = done.mem
        /\ shadow' = Painted(IF q1 = q2 THEN NoRect
                             ELSE Within(Rect(p1, p2), Rect(q1, q2)), value)
        /\ last' = [op |-> "fill", depth |-> 2, target |-> view, value |-> value,
                    rows |-> done.rows, parent |-> outer, p1 |-> q1, p2 |-> q2]
        /\ UNCHANGED <<stack, nfills, file>>

\* canvas.save_as_ppm(filename, decode_rgb), the last call of a run. A
\* stream that failed to open takes no byte.
SaveAsPpm(opened) ==
    /\ last.op # "save"
    /\ file' = IF opened THEN save_as_ppm(Root, mem) ELSE <<>>
    /\ last' = [op |-> "save", opened |-> opened]
    /\ UNCHANGED <<mem, stack, shadow, nfills>>

\* The same calls in a run that paints one canvas over and over: up to
\* MaxFills fill calls, on the canvas or through views of it.
Painting == last.op # "save" /\ nfills < MaxFills

Paint(value) ==
    /\ Painting
    /\ mem' = fill(Root, mem, value).mem
    /\ shadow' = Painted(Whole, value)
    /\ nfills' = nfills + 1
    /\ last' = [op |-> "fill"]
    /\ UNCHANGED <<stack, file>>

PaintView(p1, p2, value) ==
    /\ Painting
    /\ mem' = fill(subcanvas_view(Root, p1, p2), mem, value).mem
    /\ shadow' = Painted(IF p1 = p2 THEN NoRect ELSE Rect(p1, p2), value)
    /\ nfills' = nfills + 1
    /\ last' = [op |-> "fill"]
    /\ UNCHANGED <<stack, file>>

PaintNestedView(p1, p2, q1, q2, value) ==
    /\ Painting
    /\ mem' = fill(subcanvas_view(subcanvas_view(Root, p1, p2), q1, q2), mem, value).mem
    /\ shadow' = Painted(IF q1 = q2 THEN NoRect
                         ELSE Within(Rect(p1, p2), Rect(q1, q2)), value)
    /\ nfills' = nfills + 1
    /\ last' = [op |-> "fill"]
    /\ UNCHANGED <<stack, file>>

\* auto view = Top.subcanvas_view(p1, p2)
SubcanvasView(p1, p2) ==
    /\ Len(stack) <= MaxDepth
    /\ stack' = Append(stack, subcanvas_view(Top, p1, p2))
    /\ last' = [op |-> "view", p1 |-> p1, p2 |-> p2]
    /\ UNCHANGED <<mem, shadow, nfills, file>>

\* The newest view goes out of scope.
Release ==
    /\ Len(stack) > 1
    /\ stack' = SubSeq(stack, 1, Len(stack) - 1)
    /\ last' = [op |-> "release"]
    /\ UNCHANGED <<mem, shadow, nfills, file>>

-----------------------------------------------------------------------------
(* Specifications.                                                         *)

vars == <<rgbIn, color, rgbOut, vin, vres, vstat, fmtVec, os,
          mem, stack, shadow, nfills, last, file>>

RgbIdle == rgbIn = <<0, 0, 0>> /\ color = <<>> /\ rgbOut = <<>>

VecIdle ==
    /\ vin = [op |-> "plus", lhs |-> Scalar(0), rhs |-> Scalar(0)]
    /\ vres = <<>>
    /\ vstat = "none"
    /\ fmtVec = <<>>
    /\ os = <<>>

\* The top-level canvases of the given widths and heights: stride >= width,
\* and a storage of the least size the data model allows or of whole rows.
Geometries(shapes) ==
    UNION {{[width |-> s[1], height |-> s[2], stride |-> s[1] + pad, size |-> n] :
                n \in {(s[1] + pad) * (s[2] - 1) + s[1], (s[1] + pad) * s[2]}} :
            s \in shapes, pad \in 0..MaxPad}

\* The storage handed to the constructor: value-initialised, or holding
\* red and green in turn.
Contents(n) ==
    {[i \in 1..n |-> <<0, 0, 0, 0>>],
     [i \in 1..n |-> IF i % 2 = 1 THEN red ELSE green]}

InitCanvasFor(g, m) ==
    /\ mem = m
    /\ stack = <<Canvas(<<0, g.size>>, g.width, g.height, g.stride)>>
    /\ shadow = [q \in (0..(g.width - 1)) \X (0..(g.height - 1)) |->
                    m[q[2] * g.stride + q[1] + 1]]
    /\ nfills = 0
    /\ last = [op |-> "init"]
    /\ file = <<>>

CanvasIdle ==
    InitCanvasFor([width |-> 1, height |-> 1, stride |-> 1, size |-> 1],
                  << <<0, 0, 0, 0>> >>)

Shapes == (1..MaxSide) \X (1..MaxSide)

PaintShapes == {s \in (1..MaxPixels) \X (1..MaxPixels) : s[1] * s[2] <= MaxPixels}

\* Corner pairs given top-left first.
Ordered(p1, p2) == p1[1] <= p2[1] /\ p1[2] <= p2[2]

\* A canvas constructed, cleared any number of times, filled through one
\* view, and exported.
Init ==
    /\ RgbIdle
    /\ VecIdle
    /\ \E g \in Geometries(Shapes) : \E m \in Contents(g.size) :
            InitCanvasFor(g, m)

Next ==
    /\ UNCHANGED rgbVars
    /\ UNCHANGED vecVars
    /\ \/ \E value \in Palette : Fill(value)
       \/ /\ Fresh
          /\ \E p1 \in Points(Root), p2 \in Points(Root), value \in Palette :
                FillView(p1, p2, value)
       \/ /\ Fresh
          /\ \E p1 \in Points(Root), p2 \in Points(Root) :
                /\ Ordered(p1, p2)
                /\ \E q1 \in Points(subcanvas_view(Root, p1, p2)),
                      q2 \in Points(subcanvas_view(Root, p1, p2)), value \in Palette :
                        Ordered(q1, q2) /\ FillNestedView(p1, p2, q1, q2, value)
       \/ \E opened \in BOOLEAN : SaveAsPpm(opened)

Spec == Init /\ [][Next]_vars

\* A canvas painted by a sequence of fills, on it and through views of
\* it, and exported.
InitPaint ==
    /\ RgbIdle
    /\ VecIdle
    /\ \E g \in Geometries(PaintShapes) :
            InitCanvasFor(g, [i \in 1..g.size |-> <<0, 0, 0, 0>>])

NextPaint ==
    /\ UNCHANGED rgbVars
    /\ UNCHANGED vecVars
    /\ \/ \E value \in Palette : Paint(value)
       \/ /\ Painting
          /\ \E p1 \in Points(Root), p2 \in Points(Root), value \in Palette :
                Ordered(p1, p2) /\ PaintView(p1, p2, value)
       \/ /\ Painting
          /\ \E p1 \in Points(Root), p2 \in Points(Root) :
                /\ Ordered(p1, p2)
                /\ \E q1 \in Points(subcanvas_view(Root, p1, p2)),
                      q2 \in Points(subcanvas_view(Root, p1, p2)), value \in Palette :
                        Ordered(q1, q2) /\ PaintNestedView(p1, p2, q1, q2, value)
       \/ \E opened \in BOOLEAN : SaveAsPpm(opened)

SpecPaint == InitPaint /\ [][NextPaint]_vars

\* Views of a canvas and views of views, held by the caller.
InitView ==
    /\ RgbIdle
    /\ VecIdle
    /\ \E g \in Geometries(Shapes) :
            InitCanvasFor(g, [i \in 1..g.size |-> <<0, 0, 0, 0>>])

NextView ==
    /\ UNCHANGED rgbVars
    /\ UNCHANGED vecVars
    /\ \/ \E p1 \in Points(Top), p2 \in Points(Top) : SubcanvasView(p1, p2)
       \/ Release

SpecView == InitView /\ [][NextView]_vars

\* encode_rgb and decode_rgb on bounded inputs.
InitRgb ==
    /\ rgbIn \in RgbInputs
    /\ color = <<>>
    /\ rgbOut = <<>>
    /\ VecIdle
    /\ CanvasIdle

NextRgb == (Encode \/ Decode) /\ UNCHANGED vecVars /\ UNCHANGED canvasVars

SpecRgb == InitRgb /\ [][NextRgb]_vars

\* reduce and operator<< on bounded operands.
InitVec ==
    /\ RgbIdle
    /\ CanvasIdle
    /\ vin \in ReduceCalls
    /\ vres = <<>>
    /\ vstat = "none"
    /\ fmtVec = <<>>
    /\ os = <<>>

NextVec ==
    /\ UNCHANGED rgbVars
    /\ UNCHANGED canvasVars
    /\ \/ Reduce
       \/ ReduceDivByZero
       \/ \E vec \in Printable : Format(vec)

SpecVec == InitVec /\ [][NextVec]_vars

-----------------------------------------------------------------------------
(* Properties.                                                             *)

\* The storage offsets of the pixels of canvas c.
PixelOffsets(c) ==
    IF c.data = <<>> THEN {}
    ELSE {c.data[1] + y * c.stride + x : x \in 0..(c.width - 1), y \in 0..(c.height - 1)}

\* The header of a PPM file of the given width and height.
PpmHeader(w, h) == <<80, 54, 10>> \o Decimal(w) \o <<32>> \o Decimal(h) \o <<10, 50, 53, 53, 10>>

\* C1: fill(v) on a canvas (stride >= width, storage of at least
\* stride*(height-1)+width elements) leaves v in every storage element at
\* offset y*stride+x with 0 <= x < width and 0 <= y < height, and leaves
\* every other storage element, the padding of each row included, as it was.
FillFrame ==
    [][last'.op = "fill" =>
        LET pixels == PixelOffsets(last'.target)
        IN  /\ DOMAIN mem' = DOMAIN mem
            /\ \A i \in DOMAIN mem :
                mem'[i] = IF (i - 1) \in pixels THEN last'.value ELSE mem[i]]_vars

\* A padded canvas of several rows was filled, and its first padding
\* element still differs from the value of the fill.
FillFramePadded ==
    /\ last.op = "fill"
    /\ last.depth = 0
    /\ Root.stride > Root.width
    /\ Root.height > 1
    /\ mem[1] = last.value
    /\ mem[Root.width + 1] # last.value

\* C2: for two corners that differ, in any order, subcanvas_view returns a
\* view of width |x2-x1|+1, height |y2-y1|+1 and the parent's stride whose
\* element 0 is the parent's element min(y1,y2)*stride + min(x1,x2); the
\* corners swapped give the same view.
ViewGeometry ==
    (last.op = "view" /\ last.p1 # last.p2) =>
        LET parent == stack[Len(stack) - 1]
            x1 == last.p1[1]
            y1 == last.p1[2]
            x2 == last.p2[1]
            y2 == last.p2[2]
        IN  /\ Top.width = Abs(x2 - x1) + 1
            /\ Top.height = Abs(y2 - y1) + 1
            /\ Top.stride = parent.stride
            /\ Top.data[1] = parent.data[1] + Min(y1, y2) * parent.stride + Min(x1, x2)
            /\ Top = subcanvas_view(parent, last.p2, last.p1)

\* A view of a view was taken from anti-diagonal corners.
ViewGeometryAntiDiagonal ==
    /\ last.op = "view"
    /\ Len(stack) = 3
    /\ last.p1[1] > last.p2[1]
    /\ last.p1[2] < last.p2[2]

\* C3: a fill through the view of corners (x1,y1), (x2,y2), x1 < x2 and
\* y1 < y2, leaves the value in every parent pixel (x,y) with x1 <= x <= x2
\* and y1 <= y <= y2 and changes no other storage element; taking the view
\* changes neither the storage nor the parent's width, height and stride.
ViewFillFrame ==
    [][(/\ last'.op = "fill"
        /\ last'.depth >= 1
        /\ last'.p1[1] < last'.p2[1]
        /\ last'.p1[2] < last'.p2[2]) =>
        LET parent == last'.parent
            inside == {parent.data[1] + y * parent.stride + x :
                        x \in last'.p1[1]..last'.p2[1], y \in last'.p1[2]..last'.p2[2]}
        IN  /\ DOMAIN mem' = DOMAIN mem
            /\ \A i \in DOMAIN mem :
                mem'[i] = IF (i - 1) \in inside THEN last'.value ELSE mem[i]
            /\ stack' = stack
            /\ parent.stride = Root.stride
            /\ parent.width <= Root.width /\ parent.height <= Root.height]_vars

\* The top-left 2x2 view of a 3x3 canvas was filled, and the pixel (2,2)
\* outside of it still differs from the value of the fill.
ViewFillFrameInner ==
    /\ last.op = "fill"
    /\ last.depth = 1
    /\ last.p1 = <<0, 0>>
    /\ last.p2 = <<1, 1>>
    /\ Root.width = 3
    /\ Root.height = 3
    /\ mem[1] = last.value
    /\ mem[2 * Root.stride + 2 + 1] # last.value

\* C4: subcanvas_view on identical corners returns a view of width 0,
\* height 0 and stride 0 without backing storage; fill on it writes no row
\* and changes no storage element.
EmptyViewFill ==
    [][(last'.op = "fill" /\ last'.depth >= 1 /\ last'.p1 = last'.p2) =>
        /\ last'.target.width = 0
        /\ last'.target.height = 0
        /\ last'.target.stride = 0
        /\ last'.target.data = <<>>
        /\ last'.rows = 0
        /\ mem' = mem]_vars

\* A view of identical corners was filled with a value the pixel at the
\* corners does not hold.
EmptyViewFillNoop ==
    /\ last.op = "fill"
    /\ last.depth = 1
    /\ last.p1 = last.p2
    /\ last.rows = 0
    /\ mem[last.p1[2] * Root.stride + last.p1[1] + 1] # last.value

\* C5: the file save_as_ppm writes is "P6\n", the decimal width, a space,
\* the decimal height, "\n255\n", and then width*height pixels of three
\* bytes, the r, g, b of data[y*stride+x], rows first and no padding
\* element; a 2x1 canvas of red and green gives "P6\n2 1\n255\n" and the
\* bytes FF 00 00 00 FF 00.
PpmExact ==
    (last.op = "save" /\ last.opened) =>
        LET w == Root.width
            h == Root.height
            hd == PpmHeader(w, h)
        IN  /\ Len(file) = Len(hd) + 3 * w * h
            /\ SubSeq(file, 1, Len(hd)) = hd
            /\ \A k \in 0..(w * h - 1) :
                LET e == mem[(k \div w) * Root.stride + (k % w) + 1]
                IN  /\ file[Len(hd) + 3 * k + 1] = e[1]
                    /\ file[Len(hd) + 3 * k + 2] = e[2]
                    /\ file[Len(hd) + 3 * k + 3] = e[3]
            /\ (w = 2 /\ h = 1 /\ mem[1] = <<255, 0, 0, 255>> /\ mem[2] = <<0, 255, 0, 255>>) =>
                file = <<80, 54, 10, 50, 32, 49, 10, 50, 53, 53, 10,
                         255, 0, 0, 0, 255, 0>>

\* A padded 2x2 canvas whose padding holds another value than the pixel
\* after it was saved.
PpmExactPadded ==
    /\ last.op = "save"
    /\ last.opened
    /\ Root.width = 2
    /\ Root.height = 2
    /\ Root.stride = 3
    /\ mem[3] # mem[4]
    /\ Len(file) = 23

\* C6: decode_rgb(encode_rgb(r, g, b)) = (r, g, b) for all bytes r, g, b,
\* and encode_rgb(r, g, b) = r + g*2^8 + b*2^16 + 255*2^24.
RgbRoundTrip ==
    /\ color # <<>> => color = <<rgbIn[1], rgbIn[2], rgbIn[3], 255>>
    /\ rgbOut # <<>> => rgbOut = rgbIn

\* Three channels that differ went through encode_rgb and decode_rgb.
RgbRoundTripDone ==
    /\ rgbIn = <<200, 128, 1>>
    /\ color # <<>>
    /\ rgbOut # <<>>

\* The value of operand x at position i, counted from 1.
ElemOf(x, i) == IF x.kind = "vector" THEN x.elems[i] ELSE x.value

\* The arities of the vector operands of a call.
Arities(c) == {Len(x.elems) : x \in {y \in {c.lhs, c.rhs} : y.kind = "vector"}}

\* C7: reduce returns a container whose arity is the least arity of its
\* vector operands and whose element i is op(elem_i(lhs), elem_i(rhs)), in
\* this order, a scalar operand giving its value at every position.
ReduceElementwise ==
    vstat = "ok" =>
        /\ \E n \in Arities(vin) :
            /\ \A k \in Arities(vin) : n <= k
            /\ Len(vres) = n
        /\ \A i \in 1..Len(vres) :
            vres[i] = binary_operator(vin.op, ElemOf(vin.lhs, i), ElemOf(vin.rhs, i))

\* A scalar minus a vector: the order of the operands shows.
ReduceScalarMinusVector ==
    /\ vstat = "ok"
    /\ vin.op = "minus"
    /\ vin.lhs = Scalar(10)
    /\ vin.rhs = Vector(<<-7, 0, 10>>)
    /\ vres = <<17, 10, 0>>

\* The elements of a vector in order, ", " between them.
RECURSIVE Joined(_)
Joined(e) ==
    IF Len(e) = 0 THEN <<>>
    ELSE IF Len(e) = 1 THEN FormatInt(e[1])
    ELSE Joined(SubSeq(e, 1, Len(e) - 1)) \o <<44, 32>> \o FormatInt(e[Len(e)])

\* C8: operator<< writes "(", the elements in order with ", " between
\* them, and ")", for every arity, "()" for the arity 0.
FormatParenthesised ==
    fmtVec # <<>> => os = <<40>> \o Joined(fmtVec[1].elems) \o <<41>>

\* C9: the span of a view returned by subcanvas_view never extends past the
\* last element of the storage of the top-level canvas.
ViewWithinStorage ==
    \A k \in 2..Len(stack) :
        stack[k].data # <<>> => stack[k].data[2] <= stack[1].data[2]

\* C10: after any sequence of fills of a canvas and of views of it, views
\* that overlap and views of views included, every pixel holds the value of
\* the last fill whose rectangle holds the pixel, or its first value, and
\* save_as_ppm writes these values.
LastFillWins ==
    /\ \A q \in DOMAIN shadow : mem[q[2] * Root.stride + q[1] + 1] = shadow[q]
    /\ (last.op = "save" /\ last.opened) =>
        LET w == Root.width
            hd == PpmHeader(w, Root.height)
        IN  /\ Len(file) = Len(hd) + 3 * w * Root.height
            /\ SubSeq(file, 1, Len(hd)) = hd
            /\ \A k \in 0..(w * Root.height - 1) : \A ch \in 1..3 :
                file[Len(hd) + 3 * k + ch] = shadow[<<k % w, k \div w>>][ch]

\* A 3x2 canvas filled with red, then its view (1,0)-(2,1) filled with
\* green, was saved: a column of red and a 2x2 block of green.
LastFillWinsBlock ==
    /\ last.op = "save"
    /\ nfills = 2
    /\ Root.width = 3
    /\ Root.height = 2
    /\ file = <<80, 54, 10, 51, 32, 50, 10, 50, 53, 53, 10,
                255, 0, 0, 0, 255, 0, 0, 255, 0,
                255, 0, 0, 0, 255, 0, 0, 255, 0>>

=============================================================================
